---- MODULE Spec2Model ----
(***************************************************************************)
(* Model of src/api.py: the /publish endpoint of the WeChat relay.         *)
(*                                                                         *)
(* A request is the parsed JSON object req_data (a function from the keys  *)
(* that are present to their values).  The handler publish_article runs    *)
(* get_access_token, download_image / upload_image_to_wechat for the       *)
(* cover, process_content_images, create_draft and publish_draft in        *)
(* sequence.  Every outbound HTTP call is one step; the answer of the      *)
(* remote side is chosen nondeterministically among the answers the        *)
(* client code distinguishes.  calls[r] is the history of the outbound     *)
(* calls request r has issued and remote is the state of the platform.     *)
(*                                                                         *)
(* Texts (title, author, content_html) are sequences of symbols; a symbol  *)
(* is one character, except "image" (the word inside a placeholder),       *)
(* "<p>" (any markup without braces or backslashes) and the embed tag.     *)
(***************************************************************************)
EXTENDS Integers, Sequences, FiniteSets, TLC

\* ---------------------------------------------------------------- bounds
\* Largest number of content image URLs in a request.
MaxImages == 2
\* content_html is a concatenation of at most MaxParts pieces of HtmlPieces.
MaxParts == 2

RequestIds == {1, 2}

None == "None"

VARIABLES
    req,                \* req[r]: req_data, the parsed JSON object
    pc,                 \* pc[r]: position of request r in publish_article
    token,              \* token[r]
    cover_bytes,        \* cover_bytes[r]
    cover_media_id,     \* cover_media_id[r]
    idx,                \* idx[r]: loop index of process_content_images
    image_bytes,        \* image_bytes[r]
    content_html,       \* content_html[r]: local of process_content_images
    media_ids,          \* media_ids[r]: local of process_content_images
    processed_html,     \* processed_html[r]
    content_media_ids,  \* content_media_ids[r]
    draft_media_id,     \* draft_media_id[r]
    publish_id,         \* publish_id[r]
    response,           \* response[r]: the HTTP response of the request
    calls,              \* calls[r]: outbound calls issued so far, in order
    remote              \* the platform: tokens issued, media, drafts, published

vars == <<req, pc, token, cover_bytes, cover_media_id, idx, image_bytes,
          content_html, media_ids, processed_html, content_media_ids,
          draft_media_id, publish_id, response, calls, remote>>

\* ------------------------------------------------------------ request data
required_fields ==
    {"APP_ID", "APP_SECRET", "title", "author", "content_html", "cover_image_url"}

\* f"{{image{idx}}}"
RECURSIVE Digits(_)
Digits(n) == IF n < 10 THEN <<ToString(n)>> ELSE Digits(n \div 10) \o <<ToString(n % 10)>>

Placeholder(i) == <<"{", "image">> \o Digits(i) \o <<"}">>

\* f"image{idx}"
ImageKey(i) == "image" \o ToString(i)

wechat_img_tag == <<"<img data-ratio=\"1.33\" data-src=\"\" data-type=\"jpeg\" data-w=\"1280\" src=\"\"/>">>

\* ------------------------------------------------------------- pure text
IsPrefix(p, s) == Len(p) <= Len(s) /\ SubSeq(s, 1, Len(p)) = p

\* str.replace(old, new): every non-overlapping occurrence, left to right.
RECURSIVE Replace(_, _, _)
Replace(s, old, new) ==
    IF Len(s) < Len(old) THEN s
    ELSE IF IsPrefix(old, s)
         THEN new \o Replace(SubSeq(s, Len(old) + 1, Len(s)), old, new)
         ELSE <<Head(s)>> \o Replace(Tail(s), old, new)

\* str.count(old)
RECURSIVE Count(_, _)
Count(s, old) ==
    IF Len(s) < Len(old) THEN 0
    ELSE IF IsPrefix(old, s)
         THEN 1 + Count(SubSeq(s, Len(old) + 1, Len(s)), old)
         ELSE Count(Tail(s), old)

\* Mutant: decode('unicode_escape', errors='ignore'), a backslash at the
\* end of the text is dropped instead of raising.
RECURSIVE unicode_escape_lenient(_)
unicode_escape_lenient(s) ==
    IF s = << >> THEN [ok |-> TRUE, val |-> << >>]
    ELSE IF Head(s) = "\\"
    THEN IF Len(s) = 1 THEN [ok |-> TRUE, val |-> << >>]
         ELSE LET rest == unicode_escape_lenient(SubSeq(s, 3, Len(s)))
                  dec  == IF s[2] = "n" THEN <<"\n">>
                          ELSE IF s[2] = "\\" THEN <<"\\">>
                          ELSE IF s[2] = "x7b" THEN <<"{">>
                          ELSE <<"\\", s[2]>>
              IN  [ok |-> rest.ok, val |-> dec \o rest.val]
    ELSE LET rest == unicode_escape_lenient(Tail(s))
             dec  == IF Head(s) = "U+00E9" THEN <<"U+00C3", "U+00A9">> ELSE <<Head(s)>>
         IN  [ok |-> rest.ok, val |-> dec \o rest.val]

\* text.encode('utf-8').decode('unicode_escape') on the symbols the model
\* uses: a backslash at the end of the text is a decoding error, "\n" and
\* "\\" are decoded, "\x7b" is the brace "{", a backslash before any other
\* symbol is kept, and a
\* non-ASCII character comes out as the Latin-1 reading of its UTF-8 bytes
\* ("U+00E9", e acute, becomes "U+00C3" "U+00A9").
RECURSIVE unicode_escape(_)
unicode_escape(s) ==
    IF s = << >> THEN [ok |-> TRUE, val |-> << >>]
    ELSE IF Head(s) = "\\"
    THEN IF Len(s) = 1 THEN [ok |-> FALSE, val |-> << >>]
         ELSE LET rest == unicode_escape(SubSeq(s, 3, Len(s)))
                  dec  == IF s[2] = "n" THEN <<"\n">>
                          ELSE IF s[2] = "\\" THEN <<"\\">>
                          ELSE IF s[2] = "x7b" THEN <<"{">>
                          ELSE <<"\\", s[2]>>
              IN  [ok |-> rest.ok, val |-> dec \o rest.val]
    ELSE LET rest == unicode_escape(Tail(s))
             dec  == IF Head(s) = "U+00E9" THEN <<"U+00C3", "U+00A9">> ELSE <<Head(s)>>
         IN  [ok |-> rest.ok, val |-> dec \o rest.val]

\* ------------------------------------------------------------ the inputs
HtmlPieces ==
    {<<"<p>">>, <<"{", "image">>, <<"}">>, <<"\\">>}
        \cup {Placeholder(i) : i \in 0..MaxImages}

RECURSIVE Concats(_)
Concats(n) ==
    IF n = 0 THEN {<< >>}
    ELSE LET shorter == Concats(n - 1)
         IN  shorter \cup {h \o p : h \in shorter, p \in HtmlPieces}

Htmls == Concats(MaxParts)

Titles == {<<"U+00E9", "\\", "n">>, <<"T", "\\">>}
Authors == {<<"A">>, <<"A", "\\">>}

\* The first k content image URLs.
ContentUrls(k) == [i \in 1..k |-> "u" \o ToString(i - 1) \o ".jpg"]

AllFields == required_fields \cup {"content_image_urls"}

Restrict(d, keys) == [k \in keys |-> d[k]]

MakeRequest(t, a, h, urls) ==
    [APP_ID |-> "wx_id", APP_SECRET |-> "wx_secret", title |-> t, author |-> a,
     content_html |-> h, cover_image_url |-> "cover.jpg",
     content_image_urls |-> urls]

DefaultRequest ==
    MakeRequest(<<"T">>, <<"A">>, <<"<p>">> \o Placeholder(0), ContentUrls(1))

\* A body that spells the brace of a placeholder as an escape sequence.
EscapedPlaceholder == <<"\\", "x7b", "image", "0", "}">>

\* The empty value of a required field: the empty text or the empty string.
EmptyValue(k) == IF k \in {"title", "author", "content_html"} THEN << >> ELSE ""

\* Requests with any subset of the fields, requests with one required field
\* present and empty, requests varying the texts, and requests varying the
\* body and the image list (with or without the key).
Requests ==
    {Restrict(DefaultRequest, F) : F \in SUBSET AllFields}
        \cup {[DefaultRequest EXCEPT ![k] = EmptyValue(k)] : k \in required_fields}
        \cup {MakeRequest(t, a, DefaultRequest.content_html, ContentUrls(1)) :
                 t \in Titles, a \in Authors}
        \cup {MakeRequest(<<"T">>, <<"A">>, h, ContentUrls(k)) :
                 h \in Htmls, k \in 0..MaxImages}
        \cup {Restrict(MakeRequest(<<"T">>, <<"A">>, h, << >>), required_fields) :
                 h \in Htmls}
        \cup {MakeRequest(<<"T">>, <<"A">>, EscapedPlaceholder, ContentUrls(1))}

\* ------------------------------------------------- answers of the remote
\* An answer is a transport error (requests raises), a non-2xx status
\* (raise_for_status raises) or a JSON body, here a function from keys.
TransportError == [kind |-> "error"]
BadStatus == [kind |-> "status"]
Json(d) == [kind |-> "json", data |-> d]

\* Whether the answer grants what the call asked for.
Accepted(op, resp) ==
    CASE op = "token" -> resp.kind = "json" /\ "access_token" \in DOMAIN resp.data
      [] op = "download" -> resp.kind = "content"
      [] op \in {"upload", "draft"} ->
             resp.kind = "json" /\ "media_id" \in DOMAIN resp.data
      [] op = "publish" -> /\ resp.kind = "json"
                           /\ "errcode" \in DOMAIN resp.data
                           /\ resp.data.errcode = 0

\* The outcome of a client function: a returned value, or an exception
\* whose message names the cause.
Ok(v) == [ok |-> TRUE, val |-> v, cause |-> None]
Raise(cause) == [ok |-> FALSE, val |-> None, cause |-> cause]

TokenAnswers ==
    {TransportError, BadStatus, Json([errcode |-> 40013]),
     Json([access_token |-> "T" \o ToString(remote.tokens + 1)])}

\* requests.get raises on an empty URL before anything is sent.
DownloadAnswers(url) ==
    IF url = "" THEN {TransportError}
    ELSE {TransportError, BadStatus, [kind |-> "content", content |-> url]}

UploadAnswers ==
    {TransportError, BadStatus, Json([errcode |-> 40001]),
     Json([media_id |-> "M" \o ToString(Len(remote.media) + 1)])}

DraftAnswers ==
    {TransportError, BadStatus, Json([errcode |-> 40001]),
     Json([media_id |-> "D" \o ToString(Len(remote.drafts) + 1)])}

PublishAnswers ==
    {TransportError, BadStatus, Json(<< >>), Json([errcode |-> 48001]),
     Json([errcode |-> 0]),
     Json([errcode |-> 0, publish_id |-> "P" \o ToString(Len(remote.published) + 1)])}

\* ------------------------------------------------ the client functions
\* Mutant: data.get("access_token") returned without the membership test.
get_access_token_unchecked(resp) ==
    IF resp.kind = "json"
    THEN Ok(IF "access_token" \in DOMAIN resp.data
            THEN resp.data.access_token ELSE None)
    ELSE Raise(resp.kind)

\* What each function makes of the answer: a returned value or an exception.
get_access_token(resp) ==
    IF resp.kind = "json" /\ "access_token" \in DOMAIN resp.data
    THEN Ok(resp.data.access_token)
    ELSE Raise(IF resp.kind = "json" THEN "no access_token" ELSE resp.kind)

\* Mutant: the error swallowed, None returned in the place of the bytes.
download_image_lenient(resp) ==
    Ok(IF resp.kind = "content" THEN resp.content ELSE None)

download_image(resp) ==
    IF resp.kind = "content" THEN Ok(resp.content) ELSE Raise(resp.kind)

\* Mutant: data.get("media_id") returned without the membership test.
upload_image_unchecked(resp) ==
    IF resp.kind = "json"
    THEN Ok(IF "media_id" \in DOMAIN resp.data THEN resp.data.media_id ELSE None)
    ELSE Raise(resp.kind)

upload_image_to_wechat(resp) ==
    IF resp.kind = "json" /\ "media_id" \in DOMAIN resp.data
    THEN Ok(resp.data.media_id)
    ELSE Raise(IF resp.kind = "json" THEN "no media_id" ELSE resp.kind)

\* Mutant: data.get("media_id") returned without the membership test.
create_draft_unchecked(resp) ==
    IF resp.kind = "json"
    THEN Ok(IF "media_id" \in DOMAIN resp.data THEN resp.data.media_id ELSE None)
    ELSE Raise(resp.kind)

create_draft(resp) ==
    IF resp.kind = "json" /\ "media_id" \in DOMAIN resp.data
    THEN Ok(resp.data.media_id)
    ELSE Raise(IF resp.kind = "json" THEN "no media_id" ELSE resp.kind)

\* Mutant: data.get("errcode", 0) == 0, a missing errcode read as success.
publish_draft_lenient(resp) ==
    IF resp.kind = "json"
       /\ ("errcode" \in DOMAIN resp.data => resp.data.errcode = 0)
    THEN Ok(IF "publish_id" \in DOMAIN resp.data
            THEN resp.data.publish_id ELSE "publish_ok")
    ELSE Raise(resp.kind)

\* Mutant: data.get("publish_id") with no default.
publish_draft_nodefault(resp) ==
    IF resp.kind = "json" /\ "errcode" \in DOMAIN resp.data /\ resp.data.errcode = 0
    THEN Ok(IF "publish_id" \in DOMAIN resp.data THEN resp.data.publish_id ELSE None)
    ELSE Raise(IF resp.kind = "json"
               THEN IF "errcode" \in DOMAIN resp.data THEN "errcode" ELSE "no errcode"
               ELSE resp.kind)

\* data.get("publish_id", <the literal of line 150>): the default marker.
default_publish_id == "publish_ok"

publish_draft(resp) ==
    IF resp.kind = "json" /\ "errcode" \in DOMAIN resp.data /\ resp.data.errcode = 0
    THEN Ok(IF "publish_id" \in DOMAIN resp.data
            THEN resp.data.publish_id ELSE default_publish_id)
    ELSE Raise(IF resp.kind = "json"
               THEN IF "errcode" \in DOMAIN resp.data THEN "errcode" ELSE "no errcode"
               ELSE resp.kind)

\* Mutant: the payload built without the cover.
DraftPayload_nocover(title, author, html, cover) ==
    [title |-> title, author |-> author, content |-> html,
     thumb_media_id |-> None, need_open_comment |-> 0,
     only_fans_can_comment |-> 0, content_source_url |-> "https://openai.com"]

\* The payload of draft/add.
DraftPayload(title, author, html, cover) ==
    [title |-> title, author |-> author, content |-> html,
     thumb_media_id |-> cover, need_open_comment |-> 0,
     only_fans_can_comment |-> 0, content_source_url |-> "https://openai.com"]

\* ------------------------------------------------------------ the handler
\* all(key in req_data for key in required_fields)
Validated(d) == \A key \in required_fields : key \in DOMAIN d

\* Mutant: the cover URL taken as the one content image when none is given.
image_urls_cover(d) ==
    IF "content_image_urls" \in DOMAIN d /\ d.content_image_urls # << >>
    THEN d.content_image_urls
    ELSE <<d.cover_image_url>>

\* req_data.get('content_image_urls', [])
image_urls(d) ==
    IF "content_image_urls" \in DOMAIN d THEN d.content_image_urls ELSE << >>

HTTPException(code, detail) ==
    [type |-> "HTTPException", status_code |-> code, detail |-> detail]
Exception(detail) == [type |-> "Exception", status_code |-> 0, detail |-> detail]

\* Mutant: the generic except clause alone, which turns every exception
\* into HTTP 500.
ExceptionResponse_generic(e) == [status |-> 500, detail |-> e.detail]

\* The except clauses of publish_article: an HTTPException is re-raised as
\* it is, any other exception becomes HTTP 500.
ExceptionResponse(e) ==
    IF e.type = "HTTPException"
    THEN [status |-> e.status_code, detail |-> e.detail]
    ELSE [status |-> 500, detail |-> e.detail]

NoResponse == [status |-> 0]

\* An outbound call: what was sent, whether the answer granted it, and
\* what the client function made of the answer.
Call(op, target, tok, arg, resp, res) ==
    [op |-> op, target |-> target, token |-> tok, arg |-> arg,
     accepted |-> Accepted(op, resp), ok |-> res.ok, result |-> res.val]

Set(f, r, v) == [f EXCEPT ![r] = v]

\* Mutant: html.replace(placeholder, wechat_img_tag, 1), the first
\* occurrence alone.
RECURSIVE ReplaceFirst(_, _, _)
ReplaceFirst(s, old, new) ==
    IF Len(s) < Len(old) THEN s
    ELSE IF IsPrefix(old, s)
         THEN new \o SubSeq(s, Len(old) + 1, Len(s))
         ELSE <<Head(s)>> \o ReplaceFirst(Tail(s), old, new)

ResolveImage_first(html, i) == ReplaceFirst(html, Placeholder(i), wechat_img_tag)

\* html.replace(placeholder, wechat_img_tag) for index i
\* Mutant: a tag that names the image it stands for.
ResolveImage_indexed(html, i) ==
    Replace(html, Placeholder(i), <<"<img data-ratio=\"1.33\" data-src=\"\" data-type=\"jpeg\" data-w=\"1280\" src=\"" \o ImageKey(i) \o "\"/>">>)

ResolveImage(html, i) == Replace(html, Placeholder(i), wechat_img_tag)

\* Mutant: the key counts from one, f"image{idx + 1}".
AddMediaId_onebased(m, i, id) ==
    [k \in DOMAIN m \cup {ImageKey(i + 1)} |-> IF k = ImageKey(i + 1) THEN id ELSE m[k]]

\* media_ids[f"image{idx}"] = media_id
AddMediaId(m, i, id) ==
    [k \in DOMAIN m \cup {ImageKey(i)} |-> IF k = ImageKey(i) THEN id ELSE m[k]]

locals == <<token, cover_bytes, cover_media_id, idx, image_bytes, content_html,
            media_ids, processed_html, content_media_ids, draft_media_id,
            publish_id>>

\* The request ends with the response the except clauses make of e.
Raises(r, e) ==
    /\ response' = Set(response, r, ExceptionResponse(e))
    /\ pc' = Set(pc, r, "done")

\* Mutant: the token kept in a module-level cache that every request reads.
StoreToken_cached(r, v) == [x \in RequestIds |-> v]

\* token = get_access_token(...): a local of the request.
StoreToken(r, v) == Set(token, r, v)

Validate(r) ==
    /\ pc[r] = "validate"
    /\ IF ~Validated(req[r])
       THEN Raises(r, HTTPException(400, <<"missing parameter">>))
       ELSE pc' = Set(pc, r, "get_access_token") /\ UNCHANGED response
    /\ UNCHANGED <<req, locals, calls, remote>>

GetAccessToken(r) ==
    /\ pc[r] = "get_access_token"
    /\ \E resp \in TokenAnswers :
         LET res == get_access_token(resp) IN
         /\ calls' = Set(calls, r, Append(calls[r],
                Call("token", "token", None, <<req[r].APP_ID, req[r].APP_SECRET>>, resp, res)))
         /\ remote' = IF Accepted("token", resp)
                      THEN [remote EXCEPT !.tokens = @ + 1] ELSE remote
         /\ IF res.ok
            THEN /\ token' = StoreToken(r, res.val)
                 /\ pc' = Set(pc, r, "download_cover")
                 /\ UNCHANGED response
            ELSE /\ Raises(r, Exception(<<"get_access_token", res.cause>>))
                 /\ UNCHANGED token
    /\ UNCHANGED <<req, cover_bytes, cover_media_id, idx, image_bytes, content_html,
                   media_ids, processed_html, content_media_ids, draft_media_id,
                   publish_id>>

DownloadCover(r) ==
    /\ pc[r] = "download_cover"
    /\ \E resp \in DownloadAnswers(req[r].cover_image_url) :
         LET res == download_image(resp) IN
         /\ calls' = Set(calls, r, Append(calls[r],
                Call("download", "cover", None, req[r].cover_image_url, resp, res)))
         /\ IF res.ok
            THEN /\ cover_bytes' = Set(cover_bytes, r, res.val)
                 /\ pc' = Set(pc, r, "upload_cover")
                 /\ UNCHANGED response
            ELSE /\ Raises(r, Exception(<<"download_image", res.cause>>))
                 /\ UNCHANGED cover_bytes
    /\ UNCHANGED <<req, token, cover_media_id, idx, image_bytes, content_html,
                   media_ids, processed_html, content_media_ids, draft_media_id,
                   publish_id, remote>>

\* The platform stores the uploaded bytes when it answers with a media_id.
Stored(resp, tok, bytes) ==
    IF Accepted("upload", resp)
    THEN [remote EXCEPT !.media = Append(@,
             [media_id |-> resp.data.media_id, content |-> bytes, token |-> tok])]
    ELSE remote

UploadCover(r) ==
    /\ pc[r] = "upload_cover"
    /\ \E resp \in UploadAnswers :
         LET res == upload_image_to_wechat(resp) IN
         /\ calls' = Set(calls, r, Append(calls[r],
                Call("upload", "cover", token[r], cover_bytes[r], resp, res)))
         /\ remote' = Stored(resp, token[r], cover_bytes[r])
         /\ IF res.ok
            THEN /\ cover_media_id' = Set(cover_media_id, r, res.val)
                 /\ pc' = Set(pc, r, "process_content_images")
                 /\ UNCHANGED response
            ELSE /\ Raises(r, Exception(<<"upload_image_to_wechat", res.cause>>))
                 /\ UNCHANGED cover_media_id
    /\ UNCHANGED <<req, token, cover_bytes, idx, image_bytes, content_html,
                   media_ids, processed_html, content_media_ids, draft_media_id,
                   publish_id>>

\* The call of process_content_images and its first line.
ProcessContentImages(r) ==
    /\ pc[r] = "process_content_images"
    /\ content_html' = Set(content_html, r, req[r].content_html)
    /\ media_ids' = Set(media_ids, r, << >>)
    /\ idx' = Set(idx, r, 0)
    /\ pc' = Set(pc, r, "for")
    /\ UNCHANGED <<req, token, cover_bytes, cover_media_id, image_bytes,
                   processed_html, content_media_ids, draft_media_id, publish_id,
                   response, calls, remote>>

\* for idx, url in enumerate(image_urls), and the return after the last URL.
For(r) ==
    /\ pc[r] = "for"
    /\ IF idx[r] < Len(image_urls(req[r]))
       THEN /\ pc' = Set(pc, r, "download_image")
            /\ UNCHANGED <<processed_html, content_media_ids>>
       ELSE /\ processed_html' = Set(processed_html, r, content_html[r])
            /\ content_media_ids' = Set(content_media_ids, r, media_ids[r])
            /\ pc' = Set(pc, r, "create_draft")
    /\ UNCHANGED <<req, token, cover_bytes, cover_media_id, idx, image_bytes,
                   content_html, media_ids, draft_media_id, publish_id, response,
                   calls, remote>>

\* Mutant: the same URL is tried again instead of the next one.
Continue_retry(r) ==
    /\ idx' = idx
    /\ pc' = Set(pc, r, "for")

\* Mutant: break instead of continue, the loop ends at the first image.
Continue_break(r) ==
    /\ idx' = Set(idx, r, Len(image_urls(req[r])))
    /\ pc' = Set(pc, r, "for")

\* except Exception: log and continue with the next URL.
Continue(r) ==
    /\ idx' = Set(idx, r, idx[r] + 1)
    /\ pc' = Set(pc, r, "for")

DownloadImage(r) ==
    /\ pc[r] = "download_image"
    /\ LET url == image_urls(req[r])[idx[r] + 1] IN
       \E resp \in DownloadAnswers(url) :
         LET res == download_image(resp) IN
         /\ calls' = Set(calls, r, Append(calls[r],
                Call("download", ImageKey(idx[r]), None, url, resp, res)))
         /\ IF res.ok
            THEN /\ image_bytes' = Set(image_bytes, r, res.val)
                 /\ pc' = Set(pc, r, "upload_image")
                 /\ UNCHANGED idx
            ELSE /\ Continue(r)
                 /\ UNCHANGED image_bytes
    /\ UNCHANGED <<req, token, cover_bytes, cover_media_id, content_html, media_ids,
                   processed_html, content_media_ids, draft_media_id, publish_id,
                   response, remote>>

UploadImage(r) ==
    /\ pc[r] = "upload_image"
    /\ \E resp \in UploadAnswers :
         LET res == upload_image_to_wechat(resp) IN
         /\ calls' = Set(calls, r, Append(calls[r],
                Call("upload", ImageKey(idx[r]), token[r], image_bytes[r], resp, res)))
         /\ remote' = Stored(resp, token[r], image_bytes[r])
         /\ IF res.ok
            THEN /\ content_html' = Set(content_html, r,
                                        ResolveImage(content_html[r], idx[r]))
                 /\ media_ids' = Set(media_ids, r,
                                     AddMediaId(media_ids[r], idx[r], res.val))
            ELSE UNCHANGED <<content_html, media_ids>>
         /\ Continue(r)
    /\ UNCHANGED <<req, token, cover_bytes, cover_media_id, image_bytes,
                   processed_html, content_media_ids, draft_media_id, publish_id,
                   response>>

CreateDraft(r) ==
    /\ pc[r] = "create_draft"
    /\ LET html   == unicode_escape(processed_html[r])
           title  == unicode_escape(req[r].title)
           author == unicode_escape(req[r].author)
       IN
       IF ~(html.ok /\ title.ok /\ author.ok)
       THEN /\ Raises(r, Exception(<<"create_draft", "decode">>))
            /\ UNCHANGED <<draft_media_id, calls, remote>>
       ELSE \E resp \in DraftAnswers :
              LET res == create_draft(resp)
                  payload == DraftPayload(title.val, author.val, html.val,
                                          cover_media_id[r])
              IN
              /\ calls' = Set(calls, r, Append(calls[r],
                     Call("draft", "draft", token[r], payload, resp, res)))
              /\ remote' = IF Accepted("draft", resp)
                           THEN [remote EXCEPT !.drafts = Append(@,
                                    [media_id |-> resp.data.media_id,
                                     article |-> payload, token |-> token[r]])]
                           ELSE remote
              /\ IF res.ok
                 THEN /\ draft_media_id' = Set(draft_media_id, r, res.val)
                      /\ pc' = Set(pc, r, "publish_draft")
                      /\ UNCHANGED response
                 ELSE /\ Raises(r, Exception(<<"create_draft", res.cause>>))
                      /\ UNCHANGED draft_media_id
    /\ UNCHANGED <<req, token, cover_bytes, cover_media_id, idx, image_bytes,
                   content_html, media_ids, processed_html, content_media_ids,
                   publish_id>>

\* Mutant: the draft id reported in the place of the cover id.
SuccessBody_swapped(r, pid) ==
    [status |-> "success", draft_media_id |-> draft_media_id[r],
     cover_media_id |-> draft_media_id[r],
     content_media_ids |-> content_media_ids[r], publish_id |-> pid]

\* The body of the HTTP 200 response.
SuccessBody(r, pid) ==
    [status |-> "success", draft_media_id |-> draft_media_id[r],
     cover_media_id |-> cover_media_id[r],
     content_media_ids |-> content_media_ids[r], publish_id |-> pid]

PublishDraft(r) ==
    /\ pc[r] = "publish_draft"
    /\ \E resp \in PublishAnswers :
         LET res == publish_draft(resp) IN
         /\ calls' = Set(calls, r, Append(calls[r],
                Call("publish", "publish", token[r], draft_media_id[r], resp, res)))
         /\ remote' = IF Accepted("publish", resp)
                      THEN [remote EXCEPT !.published = Append(@,
                               [media_id |-> draft_media_id[r], token |-> token[r],
                                publish_id |-> IF "publish_id" \in DOMAIN resp.data
                                               THEN resp.data.publish_id
                                               ELSE None])]
                      ELSE remote
         /\ IF res.ok
            THEN /\ publish_id' = Set(publish_id, r, res.val)
                 /\ response' = Set(response, r,
                        [status |-> 200, body |-> SuccessBody(r, res.val)])
                 /\ pc' = Set(pc, r, "done")
            ELSE /\ Raises(r, Exception(<<"publish_draft", res.cause>>))
                 /\ UNCHANGED publish_id
    /\ UNCHANGED <<req, token, cover_bytes, cover_media_id, idx, image_bytes,
                   content_html, media_ids, processed_html, content_media_ids,
                   draft_media_id>>

\* ------------------------------------------------------- specifications
NoRequest == << >>

InitLocals ==
    /\ token = [r \in RequestIds |-> None]
    /\ cover_bytes = [r \in RequestIds |-> None]
    /\ cover_media_id = [r \in RequestIds |-> None]
    /\ idx = [r \in RequestIds |-> 0]
    /\ image_bytes = [r \in RequestIds |-> None]
    /\ content_html = [r \in RequestIds |-> << >>]
    /\ media_ids = [r \in RequestIds |-> << >>]
    /\ processed_html = [r \in RequestIds |-> << >>]
    /\ content_media_ids = [r \in RequestIds |-> << >>]
    /\ draft_media_id = [r \in RequestIds |-> None]
    /\ publish_id = [r \in RequestIds |-> None]
    /\ response = [r \in RequestIds |-> NoResponse]
    /\ calls = [r \in RequestIds |-> << >>]
    /\ remote = [tokens |-> 0, media |-> << >>, drafts |-> << >>, published |-> << >>]

\* One request is served; the other request id is not in use.
Init ==
    /\ \E d \in Requests : req = [r \in RequestIds |-> IF r = 1 THEN d ELSE NoRequest]
    /\ pc = [r \in RequestIds |-> IF r = 1 THEN "validate" ELSE "none"]
    /\ InitLocals

Next ==
    \E r \in RequestIds :
        \/ Validate(r)
        \/ GetAccessToken(r)
        \/ DownloadCover(r)
        \/ UploadCover(r)
        \/ ProcessContentImages(r)
        \/ For(r)
        \/ DownloadImage(r)
        \/ UploadImage(r)
        \/ CreateDraft(r)
        \/ PublishDraft(r)

Spec == Init /\ [][Next]_vars

\* The requests of Requests whose body is at most one piece.
RequestsOnePiece ==
    {d \in Requests : "content_html" \in DOMAIN d =>
        d.content_html \in Concats(1) \cup {DefaultRequest.content_html}}

InitOnePiece ==
    /\ \E d \in RequestsOnePiece :
          req = [r \in RequestIds |-> IF r = 1 THEN d ELSE NoRequest]
    /\ pc = [r \in RequestIds |-> IF r = 1 THEN "validate" ELSE "none"]
    /\ InitLocals

\* Two requests served at the same time, their steps interleaved.
RequestsConcurrent ==
    {DefaultRequest, Restrict(DefaultRequest, AllFields \ {"author"}),
     MakeRequest(<<"T", "\\">>, <<"A">>, << >>, << >>)}

InitConcurrent ==
    /\ req \in [RequestIds -> RequestsConcurrent]
    /\ pc = [r \in RequestIds |-> "validate"]
    /\ InitLocals

SpecConcurrent == InitConcurrent /\ [][Next]_vars

\* The handler runs on: every outbound call is made with timeout=10 and so
\* returns or raises, and nothing else in publish_article waits.
FairSpec == InitOnePiece /\ [][Next]_vars /\ WF_vars(Next)

\* ------------------------------------------------------------ the claims
\* The requests in use, the calls of a request and the images of a request.
Active == {r \in RequestIds : pc[r] # "none"}
CallIx(r) == 1..Len(calls[r])
NumImages(r) == Len(image_urls(req[r]))
\* The placeholder text and the mapping key of content image i, spelled out.
Token(i) == <<"{", "image", ToString(i), "}">>
KeyName(i) == "image" \o ToString(i)
IsImageCall(c) == c.op \in {"download", "upload"} /\ c.target # "cover"
\* The fetch or the upload of content image j failed.
ImageFailed(r, j) ==
    \E i \in CallIx(r) : calls[r][i].target = KeyName(j) /\ ~calls[r][i].accepted
MissingRequired(r) ==
    \E k \in {"APP_ID", "APP_SECRET", "title", "author", "content_html",
              "cover_image_url"} : k \notin DOMAIN req[r]

\* C1: a request that lacks a required field makes no outbound call and ends
\* with HTTP 400, never with another status.
C1_MissingFieldIs400 ==
    \A r \in Active :
        MissingRequired(r) =>
            /\ calls[r] = << >>
            /\ pc[r] \in {"validate", "done"}
            /\ pc[r] = "validate" => response[r] = NoResponse
            /\ pc[r] = "done" => response[r].status = 400

\* C1 witness: the request without "title" alone has been answered with 400.
C1_Witness ==
    /\ DOMAIN req[1] = AllFields \ {"title"}
    /\ pc[1] = "done"
    /\ response[1].status = 400

\* C2: when the token call is not granted, it stays the only outbound call of
\* the request and the request ends with HTTP 500.
C2_TokenFailureStops ==
    \A r \in Active :
        (calls[r] # << >> /\ ~calls[r][1].accepted) =>
            /\ calls[r][1].op = "token"
            /\ Len(calls[r]) = 1
            /\ pc[r] = "done"
            /\ response[r].status = 500

\* C2 witness: the token endpoint answered without an access_token field.
C2_Witness ==
    /\ Len(calls[1]) = 1
    /\ ~calls[1][1].accepted
    /\ response[1] = [status |-> 500,
                      detail |-> <<"get_access_token", "no access_token">>]

\* C3: when the fetch or upload of content image j fails, the mapping has no
\* key image{j} and the body keeps every {image{j}}; the loop still visits
\* every URL and the request goes on to the draft and the publish call.
C3_FailedImageSkipped ==
    \A r \in Active : \A j \in 0..(NumImages(r) - 1) :
        ImageFailed(r, j) =>
            /\ KeyName(j) \notin DOMAIN media_ids[r]
            /\ Count(content_html[r], Token(j)) = Count(req[r].content_html, Token(j))
            /\ pc[r] \in {"for", "download_image", "upload_image", "create_draft",
                          "publish_draft", "done"}
            /\ pc[r] \in {"create_draft", "publish_draft", "done"} =>
                  /\ KeyName(j) \notin DOMAIN content_media_ids[r]
                  /\ Count(processed_html[r], Token(j))
                        = Count(req[r].content_html, Token(j))
                  /\ \A k \in 0..(NumImages(r) - 1) :
                        \E i \in CallIx(r) : /\ calls[r][i].op = "download"
                                             /\ calls[r][i].target = KeyName(k)
            /\ pc[r] = "done" =>
                  \/ /\ response[r].status = 200
                     /\ KeyName(j) \notin DOMAIN response[r].body.content_media_ids
                  \/ /\ response[r].status = 500
                     /\ response[r].detail[1] \in {"create_draft", "publish_draft"}
            /\ (\E i \in CallIx(r) : calls[r][i].op = "publish" /\ calls[r][i].accepted)
                  => response[r].status = 200

\* C3 witness: image0 failed, image1 was uploaded, the body still holds
\* {image0} and the request ended with HTTP 200.
C3_Witness ==
    /\ NumImages(1) = 2
    /\ ImageFailed(1, 0)
    /\ response[1].status = 200
    /\ DOMAIN response[1].body.content_media_ids = {"image1"}
    /\ Count(processed_html[1], Token(0)) > 0

AllImagesUploaded(r) ==
    \A k \in 0..(NumImages(r) - 1) :
        \E i \in CallIx(r) : /\ calls[r][i].op = "upload"
                             /\ calls[r][i].target = KeyName(k)
                             /\ calls[r][i].accepted

\* C4: after a successful run in which every content image was fetched and
\* uploaded, content_media_ids has exactly the keys image0..image{K-1} and
\* the resolved body holds no {image{i}} for any index i below K.
C4_AllResolved ==
    \A r \in Active :
        (response[r].status = 200 /\ AllImagesUploaded(r)) =>
            /\ DOMAIN response[r].body.content_media_ids
                  = {KeyName(k) : k \in 0..(NumImages(r) - 1)}
            /\ \A k \in 0..(NumImages(r) - 1) :
                  Count(processed_html[r], Token(k)) = 0

\* C4 witness: a successful run with two images whose body named image0 twice.
C4_Witness ==
    /\ response[1].status = 200
    /\ NumImages(1) = 2
    /\ AllImagesUploaded(1)
    /\ Count(req[1].content_html, Token(0)) = 2

\* C5: a publish call that is not granted is the last outbound call of the
\* request, the request ends with HTTP 500 and the draft it named is still
\* on the platform.
C5_PublishFailureKeepsDraft ==
    \A r \in Active : \A i \in CallIx(r) :
        (calls[r][i].op = "publish" /\ ~calls[r][i].accepted) =>
            /\ i = Len(calls[r])
            /\ pc[r] = "done"
            /\ response[r].status = 500
            /\ response[r].detail[1] = "publish_draft"
            /\ i > 1 /\ calls[r][i - 1].op = "draft" /\ calls[r][i - 1].accepted
            /\ \E d \in 1..Len(remote.drafts) :
                  remote.drafts[d].media_id = calls[r][i].arg
            /\ \A q \in 1..Len(remote.published) :
                  remote.published[q].media_id # calls[r][i].arg

\* C5 witness: the publish endpoint answered with a non-zero errcode or none.
C5_Witness ==
    /\ pc[1] = "done"
    /\ response[1] = [status |-> 500, detail |-> <<"publish_draft", "errcode">>]
    /\ Len(remote.drafts) = 1

\* The body of the request holds no placeholder {image{k}} of any of its
\* content images.
NoTokens(r) ==
    \A k \in 0..(NumImages(r) - 1) : Count(req[r].content_html, Token(k)) = 0
\* The keys of the content images whose fetch and upload were both granted.
UploadedKeys(r) ==
    {KeyName(k) : k \in {n \in 0..(NumImages(r) - 1) :
        \E i \in CallIx(r) : /\ calls[r][i].op = "upload"
                             /\ calls[r][i].target = KeyName(n)
                             /\ calls[r][i].accepted}}

\* C6 as stated: on a body without {imageN} tokens process_content_images
\* returns the body unchanged and an empty mapping.
C6_Original ==
    \A r \in Active :
        (pc[r] = "create_draft" /\ NoTokens(r)) =>
            /\ processed_html[r] = req[r].content_html
            /\ content_media_ids[r] = << >>

\* C6 amended: on a body without {imageN} tokens process_content_images
\* returns the body unchanged, and the mapping holds exactly the keys of the
\* images whose fetch and upload succeeded.
C6_UnchangedBody ==
    \A r \in Active :
        (pc[r] = "create_draft" /\ NoTokens(r)) =>
            /\ processed_html[r] = req[r].content_html
            /\ DOMAIN content_media_ids[r] = UploadedKeys(r)

\* C6 witness: a body without tokens came back unchanged with a mapping
\* that is not empty.
C6_Witness ==
    /\ pc[1] = "create_draft"
    /\ req[1].content_html # << >>
    /\ NoTokens(1)
    /\ processed_html[1] = req[1].content_html
    /\ DOMAIN content_media_ids[1] = {"image0", "image1"}

\* C7: a call outside the content image loop that is not granted is the last
\* outbound call of the request, which ends with HTTP 500; a request that
\* ended with HTTP 500 failed in one of those stages.
C7_FailureIsTerminal ==
    \A r \in Active :
        /\ \A i \in CallIx(r) :
              (~calls[r][i].accepted /\ ~IsImageCall(calls[r][i])) =>
                  /\ i = Len(calls[r])
                  /\ pc[r] = "done"
                  /\ response[r].status = 500
        /\ response[r].status = 500 =>
              /\ pc[r] = "done"
              /\ \/ response[r].detail = <<"create_draft", "decode">>
                 \/ /\ calls[r] # << >>
                    /\ ~calls[r][Len(calls[r])].accepted
                    /\ ~IsImageCall(calls[r][Len(calls[r])])

\* C7 witness: the cover upload was answered without a media_id.
C7_Witness ==
    /\ Len(calls[1]) = 3
    /\ calls[1][3].op = "upload" /\ calls[1][3].target = "cover"
    /\ response[1] = [status |-> 500,
                      detail |-> <<"upload_image_to_wechat", "no media_id">>]

\* The stage of an outbound call.
Stage(c) ==
    CASE c.op = "token" -> 1
      [] c.target = "cover" -> 2
      [] c.op \in {"download", "upload"} -> 3
      [] c.op = "draft" -> 4
      [] c.op = "publish" -> 5
GrantedBefore(r, i, op, target) ==
    \E j \in 1..(i - 1) : /\ calls[r][j].op = op
                          /\ calls[r][j].target = target
                          /\ calls[r][j].accepted

\* C8: the outbound calls of a request follow the stage order: the cover is
\* fetched after the token was granted, a content image is fetched after the
\* cover upload was granted, the draft call comes after the loop has visited
\* every URL, the publish call after the draft call was granted, and no call
\* of an earlier stage follows a call of a later one.
C8_StagesForward ==
    \A r \in Active : \A i \in CallIx(r) :
        LET c == calls[r][i] IN
        /\ \A j \in 1..(i - 1) : Stage(calls[r][j]) <= Stage(c)
        /\ Stage(c) = 1 => i = 1
        /\ Stage(c) = 2 => GrantedBefore(r, i, "token", "token")
        /\ (c.op = "upload" /\ c.target = "cover")
              => GrantedBefore(r, i, "download", "cover")
        /\ Stage(c) = 3 => GrantedBefore(r, i, "upload", "cover")
        /\ Stage(c) = 4 =>
              /\ GrantedBefore(r, i, "upload", "cover")
              /\ \A k \in 0..(NumImages(r) - 1) :
                    \E j \in 1..(i - 1) : /\ calls[r][j].op = "download"
                                          /\ calls[r][j].target = KeyName(k)
        /\ Stage(c) = 5 => /\ i > 1
                           /\ calls[r][i - 1].op = "draft"
                           /\ calls[r][i - 1].accepted

\* C8 witness: a request with two content images went through every stage.
C8_Witness ==
    /\ response[1].status = 200
    /\ Len(calls[1]) = 9
    /\ calls[1][9].op = "publish"

\* C9: no outbound call is issued twice in a request.
C9_NoRetry ==
    \A r \in Active : \A i, j \in CallIx(r) :
        (calls[r][i].op = calls[r][j].op /\ calls[r][i].target = calls[r][j].target)
            => i = j

\* C9 witness: the fetch of image0 and the upload of image1 failed and the
\* request still ran to its end.
C9_Witness ==
    /\ pc[1] = "done"
    /\ NumImages(1) = 2
    /\ Len(calls[1]) = 8
    /\ ~calls[1][4].accepted /\ ~calls[1][6].accepted

\* C10: an HTTP 200 response comes only after the token, the cover fetch, the
\* cover upload, the draft and the publish call were granted, and it reports
\* the ids the platform gave: the cover id names the stored cover, the draft
\* id names a draft whose thumb_media_id is that cover id, the mapping is the
\* one the loop returned with the ids of the stored images, and the publish
\* id is the result of publishing that draft.
C10_SuccessReportsActualIds ==
    \A r \in Active :
        response[r].status = 200 =>
            LET body == response[r].body
                n == Len(calls[r]) IN
            /\ n >= 5
            /\ calls[r][1].op = "token" /\ calls[r][1].accepted
            /\ calls[r][2].op = "download" /\ calls[r][2].accepted
            /\ calls[r][2].arg = req[r].cover_image_url
            /\ calls[r][3].op = "upload" /\ calls[r][3].accepted
            /\ calls[r][3].target = "cover"
            /\ \E m \in 1..Len(remote.media) :
                  /\ remote.media[m].media_id = body.cover_media_id
                  /\ remote.media[m].content = req[r].cover_image_url
            /\ calls[r][n - 1].op = "draft" /\ calls[r][n - 1].accepted
            /\ \E d \in 1..Len(remote.drafts) :
                  /\ remote.drafts[d].media_id = body.draft_media_id
                  /\ remote.drafts[d].article.thumb_media_id = body.cover_media_id
            /\ calls[r][n].op = "publish" /\ calls[r][n].accepted
            /\ calls[r][n].arg = body.draft_media_id
            /\ \E q \in 1..Len(remote.published) :
                  remote.published[q].media_id = body.draft_media_id
            /\ body.publish_id = calls[r][n].result
            /\ body.publish_id # None
            /\ body.content_media_ids = media_ids[r]
            /\ DOMAIN body.content_media_ids = UploadedKeys(r)
            /\ \A k \in 0..(NumImages(r) - 1) :
                  KeyName(k) \in DOMAIN body.content_media_ids =>
                      \E m \in 1..Len(remote.media) :
                          /\ remote.media[m].media_id
                                = body.content_media_ids[KeyName(k)]
                          /\ remote.media[m].content = image_urls(req[r])[k + 1]

\* C10 witness: a successful response that reports a content image and the
\* default publish marker.
C10_Witness ==
    /\ response[1].status = 200
    /\ DOMAIN response[1].body.content_media_ids = {"image0"}
    /\ response[1].body.cover_media_id = "M1"
    /\ response[1].body.content_media_ids["image0"] = "M2"
    /\ response[1].body.publish_id = "publish_ok"

\* A required field of the request is present and empty.
EmptyRequired(r) ==
    \E k \in {"APP_ID", "APP_SECRET", "cover_image_url"} \cap DOMAIN req[r] :
        req[r][k] = ""
EmptyRequiredText(r) ==
    \E k \in {"title", "author", "content_html"} \cap DOMAIN req[r] :
        req[r][k] = << >>

\* C11 as stated: a request with a required field that is present and empty
\* makes no outbound call and ends with HTTP 400.
C11_EmptyFieldIs400 ==
    \A r \in Active :
        (EmptyRequired(r) \/ EmptyRequiredText(r)) =>
            /\ calls[r] = << >>
            /\ pc[r] = "done" => response[r].status = 400

\* The number of URLs the request gives.
GivenImages(r) ==
    IF "content_image_urls" \in DOMAIN req[r] THEN Len(req[r].content_image_urls) ELSE 0
\* The fetches of content image k issued so far.
Fetches(r, k) ==
    {i \in CallIx(r) : calls[r][i].op = "download" /\ calls[r][i].target = KeyName(k)}

\* C12 (state part): a request has a response exactly when it has ended, the
\* status is 200, 400 or 500, and once the loop has returned every URL has
\* been fetched exactly once.
C12_OneResponse ==
    \A r \in Active :
        /\ pc[r] # "done" => response[r] = NoResponse
        /\ pc[r] = "done" => response[r].status \in {200, 400, 500}
        /\ pc[r] \in {"create_draft", "publish_draft"} =>
              /\ idx[r] = GivenImages(r)
              /\ \A k \in 0..(GivenImages(r) - 1) : Cardinality(Fetches(r, k)) = 1

\* C12: every request ends; it then has one response with status 200, 400 or
\* 500, which never changes, and issues no further call; the loop makes one
\* pass over the URLs.
C12_Terminates ==
    /\ \A r \in RequestIds : (pc[r] = "validate") ~> (pc[r] = "done")
    /\ []C12_OneResponse
    /\ [][\A r \in RequestIds :
            pc[r] = "done" => /\ pc'[r] = "done"
                              /\ response'[r] = response[r]
                              /\ calls'[r] = calls[r]]_vars

\* C12 witness: a request with two URLs, one of them skipped, has ended.
C12_Witness ==
    /\ pc[1] = "done"
    /\ GivenImages(1) = 2
    /\ response[1].status = 200
    /\ Cardinality(DOMAIN content_media_ids[1]) = 1

\* The token, the cover id and the draft id request r obtained, from its own
\* calls (None when it has none).
Obtained(r, op, target) ==
    IF \E i \in CallIx(r) : /\ calls[r][i].op = op /\ calls[r][i].target = target
                            /\ calls[r][i].accepted
    THEN LET i == CHOOSE i \in CallIx(r) :
                    /\ calls[r][i].op = op /\ calls[r][i].target = target
                    /\ calls[r][i].accepted
         IN  calls[r][i].result
    ELSE None
\* What request r was answered so far: the granted and the refused calls.
Answers(r) ==
    [i \in CallIx(r) |-> <<calls[r][i].op, calls[r][i].target, calls[r][i].accepted>>]

\* C13: with two requests interleaved, each request that goes past the token
\* stage has made its own token call and the platform has issued one token
\* per such call; every upload, draft and publish call carries the token
\* that request obtained, the draft names the cover id and the publish call
\* the draft id that request obtained, none of them a value of the other
\* request; and two requests with the same data and the same answers that
\* stand at the same step have the same body, keys, index and response status.
C13_RequestsIsolated ==
    /\ remote.tokens
          = Cardinality({r \in Active : Obtained(r, "token", "token") # None})
    /\ \A r \in Active : \A i \in CallIx(r) :
          LET c == calls[r][i] IN
          /\ c.op \in {"upload", "draft", "publish"} =>
                /\ c.token # None
                /\ c.token = Obtained(r, "token", "token")
                /\ \A o \in Active \ {r} : c.token # Obtained(o, "token", "token")
          /\ c.op = "draft" =>
                /\ c.arg.thumb_media_id # None
                /\ c.arg.thumb_media_id = Obtained(r, "upload", "cover")
                /\ \A o \in Active \ {r} :
                      c.arg.thumb_media_id # Obtained(o, "upload", "cover")
          /\ c.op = "publish" =>
                /\ c.arg # None
                /\ c.arg = Obtained(r, "draft", "draft")
                /\ \A o \in Active \ {r} : c.arg # Obtained(o, "draft", "draft")
    /\ \A r, o \in Active :
          (req[r] = req[o] /\ Answers(r) = Answers(o) /\ pc[r] = pc[o]) =>
              /\ response[r].status = response[o].status
              /\ content_html[r] = content_html[o]
              /\ DOMAIN media_ids[r] = DOMAIN media_ids[o]
              /\ idx[r] = idx[o]

\* C13 witness: both requests succeeded, request 1 got the first token and
\* request 2 the first media id and the first draft id.
C13_Witness ==
    /\ response[1].status = 200 /\ response[2].status = 200
    /\ token[1] = "T1" /\ token[2] = "T2"
    /\ cover_media_id[2] = "M1"
    /\ draft_media_id[2] = "D1" /\ draft_media_id[1] = "D2"

\* The publish call of request r, if it has made one.
PublishCalls(r) == {i \in CallIx(r) : calls[r][i].op = "publish"}
\* What the platform recorded for the publication of draft d.
Publications(d) ==
    {q \in 1..Len(remote.published) : remote.published[q].media_id = d}

\* C14: the publish stage succeeds exactly when the answer was a 2xx JSON
\* body with errcode 0; the request then ends with 200 and the publish id
\* the platform gave, or the marker "publish_ok" when it gave none; a
\* transport error, a bad status, a non-zero errcode and a missing errcode
\* end the request with 500 from the publish stage and no publish id.
C14_PublishOutcome ==
    \A r \in Active : \A i \in PublishCalls(r) :
        LET c == calls[r][i] IN
        /\ c.ok <=> c.accepted
        /\ pc[r] = "done" /\ i = Len(calls[r])
        /\ c.accepted =>
              /\ response[r].status = 200
              /\ Cardinality(Publications(c.arg)) = 1
              /\ \A q \in Publications(c.arg) :
                    /\ response[r].body.publish_id =
                          IF remote.published[q].publish_id = None
                          THEN "publish_ok"
                          ELSE remote.published[q].publish_id
                    /\ c.result = response[r].body.publish_id
        /\ ~c.accepted =>
              /\ response[r].status = 500
              /\ response[r].detail[1] = "publish_draft"
              /\ response[r].detail[2] \in {"error", "status", "errcode", "no errcode"}
              /\ publish_id[r] = None
              /\ Publications(c.arg) = {}

\* C14 witness: errcode 0 without a publish id, reported as the marker.
C14_Witness ==
    /\ response[1].status = 200
    /\ response[1].body.publish_id = "publish_ok"
    /\ \E q \in 1..Len(remote.published) : remote.published[q].publish_id = None

\* C14 second case reached as well: a body without errcode ends in 500.
C14_WitnessMissingErrcode ==
    response[1] = [status |-> 500, detail |-> <<"publish_draft", "no errcode">>]

\* The number of backslashes the text ends with; the text does not decode
\* when that number is odd (the last one escapes nothing).
RECURSIVE TrailingBackslashes(_)
TrailingBackslashes(s) ==
    IF s = << >> \/ s[Len(s)] # "\\" THEN 0
    ELSE 1 + TrailingBackslashes(SubSeq(s, 1, Len(s) - 1))
DecodeFails(s) == TrailingBackslashes(s) % 2 = 1
\* The cover is uploaded and every content image has been handled.
LoopReturned(r) ==
    /\ \E i \in CallIx(r) : /\ calls[r][i].op = "upload"
                            /\ calls[r][i].target = "cover"
                            /\ calls[r][i].accepted
    /\ \A k \in 0..(GivenImages(r) - 1) :
          \E i \in CallIx(r) :
              /\ calls[r][i].target = KeyName(k)
              /\ calls[r][i].op = "upload" \/ ~calls[r][i].accepted

\* C15: a request whose title, author or body does not decode never calls
\* the draft endpoint nor the publish endpoint and never creates a draft;
\* it ends with HTTP 500, raised by create_draft when the request got that
\* far; the media it uploaded are still stored by the platform.
C15_DecodeErrorStopsDraft ==
    \A r \in Active :
        (/\ ~MissingRequired(r)
         /\ \/ DecodeFails(req[r].title)
            \/ DecodeFails(req[r].author)
            \/ DecodeFails(req[r].content_html)
            \/ DecodeFails(processed_html[r])) =>
            /\ \A i \in CallIx(r) : calls[r][i].op \notin {"draft", "publish"}
            /\ pc[r] # "publish_draft"
            /\ draft_media_id[r] = None
            /\ \A q \in 1..Len(remote.drafts) : remote.drafts[q].token # token[r]
            /\ pc[r] = "done" => response[r].status = 500
            /\ (pc[r] = "done" /\ LoopReturned(r)) =>
                  response[r].detail = <<"create_draft", "decode">>
            /\ \A i \in CallIx(r) :
                  (calls[r][i].op = "upload" /\ calls[r][i].accepted) =>
                      \E q \in 1..Len(remote.media) :
                          /\ remote.media[q].media_id = calls[r][i].result
                          /\ remote.media[q].token = token[r]

\* C15 witness: the body ends in a lone backslash, the cover and a content
\* image were uploaded, and create_draft raised before any draft call.
C15_Witness ==
    /\ response[1] = [status |-> 500, detail |-> <<"create_draft", "decode">>]
    /\ DecodeFails(req[1].content_html)
    /\ ~DecodeFails(req[1].title) /\ ~DecodeFails(req[1].author)
    /\ Len(remote.media) = 2
    /\ DOMAIN content_media_ids[1] = {"image0"}

\* The indices of the content images the platform stored for request r.
Uploaded(r) ==
    {k \in 0..(GivenImages(r) - 1) :
        \E i \in CallIx(r) : /\ calls[r][i].op = "upload"
                             /\ calls[r][i].target = KeyName(k)
                             /\ calls[r][i].accepted}
\* The one tag of line 96, written out.
FixedTag == <<"<img data-ratio=\"1.33\" data-src=\"\" data-type=\"jpeg\" data-w=\"1280\" src=\"\"/>">>
\* Text s with every placeholder of an index in S replaced by the tag, in
\* one pass, and nothing else touched.
RECURSIVE Resolved(_, _)
Resolved(s, S) ==
    IF s = << >> THEN << >>
    ELSE IF \E k \in S : IsPrefix(Token(k), s)
    THEN LET k == CHOOSE k \in S : IsPrefix(Token(k), s)
         IN  FixedTag \o Resolved(SubSeq(s, Len(Token(k)) + 1, Len(s)), S)
    ELSE <<Head(s)>> \o Resolved(Tail(s), S)
\* The body of request r as the loop holds it and as the loop returned it.
InOrPastLoop(r) ==
    pc[r] \in {"for", "download_image", "upload_image", "create_draft", "publish_draft"}
LoopBody(r) ==
    IF pc[r] \in {"create_draft", "publish_draft"} THEN processed_html[r]
    ELSE content_html[r]

\* C16: while and after the loop the body is the request's body with every
\* placeholder of every uploaded image replaced by one and the same tag and
\* all other text as it was; a placeholder of any other index occurs as
\* often as in the request's body, so no replacement made a new one.
C16_SameTagNothingElse ==
    \A r \in Active :
        InOrPastLoop(r) =>
            /\ LoopBody(r) = Resolved(req[r].content_html, Uploaded(r))
            /\ \A j \in (0..(MaxImages + 1)) \ Uploaded(r) :
                  Count(LoopBody(r), Token(j)) = Count(req[r].content_html, Token(j))
            /\ Count(LoopBody(r), FixedTag)
                  = LET n[S \in SUBSET Uploaded(r)] ==
                            IF S = {} THEN 0
                            ELSE LET k == CHOOSE k \in S : TRUE
                                 IN  Count(req[r].content_html, Token(k)) + n[S \ {k}]
                    IN  n[Uploaded(r)]

\* C16 witness: of the body "{image0}{image1}" the first image failed and the
\* second was uploaded; the loop returned "{image0}" followed by the tag.
C16_Witness ==
    /\ pc[1] = "create_draft"
    /\ req[1].content_html = Token(0) \o Token(1)
    /\ Uploaded(1) = {1}
    /\ processed_html[1] = Token(0) \o FixedTag

\* C16 second case reached as well: two images, two tags that are equal.
C16_WitnessBoth ==
    /\ pc[1] = "create_draft"
    /\ Uploaded(1) = {0, 1}
    /\ processed_html[1] = FixedTag \o FixedTag

\* The drafts the platform created for request r.
DraftsCreated(r) == {i \in CallIx(r) : calls[r][i].op = "draft" /\ calls[r][i].accepted}

\* C17 as stated: every draft created names a cover and its body holds no
\* placeholder of any index of content_image_urls.
C17_Original ==
    \A r \in Active : \A i \in DraftsCreated(r) :
        /\ calls[r][i].arg.thumb_media_id # None
        /\ \A k \in 0..(GivenImages(r) - 1) :
              Count(calls[r][i].arg.content, Token(k)) = 0

\* C17, amended: every draft created names one cover, the media id the
\* platform gave for this request's cover upload, and its body is the decoded
\* form of the body the loop returned, in which no placeholder remains of an
\* index whose fetch and upload succeeded and every placeholder remains of
\* an index whose fetch or upload failed.
C17_CoverAndLoopBody ==
    \A r \in Active : \A i \in DraftsCreated(r) :
        LET article == calls[r][i].arg IN
        /\ article.thumb_media_id # None
        /\ article.thumb_media_id = Obtained(r, "upload", "cover")
        /\ \E q \in 1..Len(remote.media) :
              /\ remote.media[q].media_id = article.thumb_media_id
              /\ remote.media[q].content = req[r].cover_image_url
        /\ Cardinality({q \in 1..Len(remote.drafts) :
                            remote.drafts[q].media_id = calls[r][i].result}) = 1
        /\ \A q \in 1..Len(remote.drafts) :
              remote.drafts[q].media_id = calls[r][i].result =>
                  remote.drafts[q].article = article
        /\ article.content = unicode_escape(processed_html[r]).val
        /\ \A k \in Uploaded(r) : Count(processed_html[r], Token(k)) = 0
        /\ \A k \in (0..(GivenImages(r) - 1)) \ Uploaded(r) :
              Count(processed_html[r], Token(k)) = Count(req[r].content_html, Token(k))

\* C17 witness: a draft was created whose body still holds "{image0}", the
\* image that failed, next to the tag of image 1.
C17_Witness ==
    /\ DraftsCreated(1) # {}
    /\ Uploaded(1) = {1}
    /\ \E q \in 1..Len(remote.drafts) :
          /\ remote.drafts[q].article.content = Token(0) \o FixedTag
          /\ remote.drafts[q].article.thumb_media_id = cover_media_id[1]

\* The body submitted can hold a placeholder of an uploaded index: an
\* escaped brace is decoded after the loop has looked for placeholders.
C17_WitnessEscaped ==
    /\ DraftsCreated(1) # {}
    /\ Uploaded(1) = {0}
    /\ \E q \in 1..Len(remote.drafts) :
          remote.drafts[q].article.content = Token(0)

\* The request names no content image: the list is left out or is empty.
NoContentImages(r) ==
    \/ "content_image_urls" \notin DOMAIN req[r]
    \/ req[r].content_image_urls = << >>
Ops(r) == [i \in CallIx(r) |-> calls[r][i].op]

\* C18: a request without content images is not rejected for it and makes
\* no fetch or upload other than the cover's; the loop returns the empty
\* mapping and the request's body as it came; the draft is created from that
\* body, and a successful run has made exactly the calls token, cover fetch,
\* cover upload, draft, publish and reports the empty mapping.
C18_NoImagesAllStages ==
    \A r \in Active :
        NoContentImages(r) =>
            /\ \A i \in CallIx(r) :
                  /\ ~IsImageCall(calls[r][i])
                  /\ calls[r][i].op \in {"download", "upload"} =>
                        calls[r][i].target = "cover"
            /\ (pc[r] = "done" /\ response[r].status = 400) => MissingRequired(r)
            /\ pc[r] \notin {"download_image", "upload_image"}
            /\ media_ids[r] = << >>
            /\ pc[r] \in {"create_draft", "publish_draft"} =>
                  /\ processed_html[r] = req[r].content_html
                  /\ content_media_ids[r] = << >>
            /\ \A i \in CallIx(r) :
                  calls[r][i].op = "draft" =>
                      /\ processed_html[r] = req[r].content_html
                      /\ \A k \in 0..MaxImages :
                            Count(processed_html[r], Token(k))
                                = Count(req[r].content_html, Token(k))
            /\ (pc[r] = "done" /\ response[r].status = 200) =>
                  /\ Ops(r) = <<"token", "download", "upload", "draft", "publish">>
                  /\ response[r].body.content_media_ids = << >>

\* C18 witness: the list is left out, the body holds "{image0}", and the
\* request succeeded with that body.
C18_Witness ==
    /\ "content_image_urls" \notin DOMAIN req[1]
    /\ pc[1] = "done" /\ response[1].status = 200
    /\ Count(req[1].content_html, Token(0)) = 1
    /\ processed_html[1] = req[1].content_html

\* C18 second case reached as well: the list is given and empty.
C18_WitnessEmpty ==
    /\ "content_image_urls" \in DOMAIN req[1]
    /\ req[1].content_image_urls = << >>
    /\ pc[1] = "done" /\ response[1].status = 200

\* The positions of the content image calls of request r, and the index of
\* the image a call is about.
ImageCalls(r) == {i \in CallIx(r) : IsImageCall(calls[r][i])}
IndexOf(c) == CHOOSE k \in 0..MaxImages : KeyName(k) = c.target
\* Image k of request r is over: its fetch failed or its upload was answered.
Handled(r, k) ==
    \E i \in ImageCalls(r) :
        /\ calls[r][i].target = KeyName(k)
        /\ calls[r][i].op = "upload" \/ ~calls[r][i].accepted
\* Fetch and upload of image k both succeeded.
BothSucceeded(r, k) ==
    /\ \E i \in ImageCalls(r) : /\ calls[r][i].op = "download"
                                /\ calls[r][i].target = KeyName(k)
                                /\ calls[r][i].accepted
    /\ \E i \in ImageCalls(r) : /\ calls[r][i].op = "upload"
                                /\ calls[r][i].target = KeyName(k)
                                /\ calls[r][i].accepted

\* C19: the image calls of a request come in index order; an upload of
\* image i directly follows the successful fetch of image i and sends the
\* bytes of URL i; the fetch of image 0 follows the cover upload and the
\* fetch of image i+1 directly follows the failed fetch or the upload of
\* image i; while the loop runs, the mapping holds key image{i} exactly for
\* the visited indices whose fetch and upload both succeeded, with the media
\* id the platform returned for that upload.
C19_LoopInOrder ==
    \A r \in Active :
        /\ \A i, j \in ImageCalls(r) :
              i < j => IndexOf(calls[r][i]) <= IndexOf(calls[r][j])
        /\ \A i \in ImageCalls(r) :
              LET c == calls[r][i]
                  k == IndexOf(c)
              IN
              /\ k < GivenImages(r)
              /\ i > 1
              /\ c.op = "upload" =>
                    /\ calls[r][i - 1].op = "download"
                    /\ calls[r][i - 1].target = c.target
                    /\ calls[r][i - 1].accepted
                    /\ c.arg = req[r].content_image_urls[k + 1]
              /\ c.op = "download" =>
                    /\ c.arg = req[r].content_image_urls[k + 1]
                    /\ k = 0 => /\ calls[r][i - 1].op = "upload"
                                /\ calls[r][i - 1].target = "cover"
                                /\ calls[r][i - 1].accepted
                    /\ k > 0 => /\ calls[r][i - 1].target = KeyName(k - 1)
                                /\ \/ calls[r][i - 1].op = "upload"
                                   \/ ~calls[r][i - 1].accepted
                                /\ \A m \in 0..(k - 1) : Handled(r, m)
        /\ pc[r] \in {"for", "download_image", "upload_image"} =>
              /\ idx[r] <= GivenImages(r)
              /\ \A k \in 0..(GivenImages(r) - 1) :
                    /\ Handled(r, k) <=> k < idx[r]
                    /\ k > idx[r] => \A i \in ImageCalls(r) : calls[r][i].target # KeyName(k)
                    /\ KeyName(k) \in DOMAIN media_ids[r]
                          <=> (k < idx[r] /\ BothSucceeded(r, k))
              /\ DOMAIN media_ids[r] \subseteq {KeyName(k) : k \in 0..(GivenImages(r) - 1)}
              /\ \A k \in 0..(GivenImages(r) - 1) :
                    KeyName(k) \in DOMAIN media_ids[r] =>
                        /\ media_ids[r][KeyName(k)] = Obtained(r, "upload", KeyName(k))
                        /\ \E q \in 1..Len(remote.media) :
                              /\ remote.media[q].media_id = media_ids[r][KeyName(k)]
                              /\ remote.media[q].content = req[r].content_image_urls[k + 1]
              /\ pc[r] = "upload_image" =>
                    /\ calls[r][Len(calls[r])].op = "download"
                    /\ calls[r][Len(calls[r])].target = KeyName(idx[r])
                    /\ calls[r][Len(calls[r])].accepted

\* C19 witness: in the loop over two URLs the fetch of image 0 failed, no
\* upload of image 0 was made, and image 1 has been fetched and is about to
\* be uploaded; the mapping is still empty.
C19_Witness ==
    /\ pc[1] = "upload_image" /\ idx[1] = 1
    /\ GivenImages(1) = 2
    /\ Handled(1, 0) /\ ~BothSucceeded(1, 0)
    /\ \A i \in ImageCalls(1) : calls[1][i].op = "upload" => calls[1][i].target # "image0"
    /\ media_ids[1] = << >>

\* C19 second case reached as well: after both images the mapping holds
\* the key of the second alone.
C19_WitnessSecondOnly ==
    /\ pc[1] = "for" /\ idx[1] = 2
    /\ DOMAIN media_ids[1] = {"image1"}
    /\ ~BothSucceeded(1, 0) /\ BothSucceeded(1, 1)

====
